---- MODULE Spec2Model ----
(***************************************************************************)
(* Model of torch/csrc/jit/passes/quantization.cpp: the observer insertion *)
(* pass (InsertObserverNodes) and the calibration bind + quant/dequant     *)
(* rewrite pass (InsertQuantDequantNodes), run one after the other on a    *)
(* graph of the JIT IR.                                                    *)
(*                                                                         *)
(* The graph is a record                                                   *)
(*   nodes  : sequence of node records, a node's id is its index           *)
(*   vals   : sequence of value records, a value's id is its index         *)
(*   blocks : sequence of block records, block 1 is the root block         *)
(*   inputs : the graph inputs, in order                                   *)
(* Both passes are single threaded; one action is one loop iteration of    *)
(* the pass that is running.                                               *)
(***************************************************************************)
EXTENDS Naturals, Sequences, FiniteSets, TLC

VARIABLES
  graph,               \* the IR the passes mutate in place
  numParams,           \* method->initial_ivalues().size()
  pc,                  \* position of the running pass
  observerNodeDict,    \* kind key -> template node (InsertObserverNodes argument)
  activation_observer, \* template or NoTemplate
  param_observer,      \* template or NoTemplate
  idx,                 \* loop index of the loop pc is in
  insert_node,         \* *graph->nodes().begin()
  blocks_to_visit,     \* the block worklist (a stack, top is the last element)
  b,                   \* block being iterated, NoNode when none
  it,                  \* position of the node iterator in block b
  values_to_observe,
  qparam_dict,         \* key text -> (tag, scale, zero_point)
  qparam_value_dict,   \* value id -> (tag, scale, zero_point)
  quantInputs,
  quantOutputs,
  valueLookup,
  nodes_to_remove,
  visited,             \* history: nodes the running pass has visited, in order
  popped,              \* history: blocks the running pass has popped, in order
  graph0,              \* history: the graph when the running pass started
  graphIn,             \* history: the graph before any pass ran
  calls,               \* history: outcomes of the reserved entry points called
                       \* since the last pass was started
  runs                 \* history: invocations of InsertQuantDequantNodes so far

vars == <<graph, numParams, pc, observerNodeDict, activation_observer,
          param_observer, idx, insert_node, blocks_to_visit, b, it,
          values_to_observe, qparam_dict, qparam_value_dict, quantInputs,
          quantOutputs, valueLookup, nodes_to_remove, visited, popped,
          graph0, graphIn, calls, runs>>

(***************************************************************************)
(* Bounds of the model.                                                    *)
(***************************************************************************)
MaxConsumers == 2   \* consumers of the fanned-out value
MaxReturns == 2     \* times a value is listed as a block output
MaxDepth == 2       \* nesting depth of subblocks
MaxInputs == 2      \* graph inputs of the input-kind graphs
MaxDictKeys == 2    \* entries of the calibration dictionary
MaxCalls == 2       \* consecutive calls of reserved entry points
MaxOutputs == 2     \* outputs of the multi-output node

(***************************************************************************)
(* Host IR (torch/csrc/jit/ir.h), as far as the passes use it.             *)
(***************************************************************************)
\* The id standing for a block's param node (as a producer) and for the
\* root block's return node (as an insertion anchor): neither is in a
\* block's node list.
NoNode == 0

TensorType == "Tensor"

Range(s) == {s[i] : i \in 1..Len(s)}

Count(s, x) == Cardinality({i \in 1..Len(s) : s[i] = x})

\* Position of x in the duplicate-free sequence s.
IndexOf(s, x) == CHOOSE i \in 1..Len(s) : s[i] = x

InsertAt(s, i, x) == SubSeq(s, 1, i - 1) \o <<x>> \o SubSeq(s, i, Len(s))

Remove(s, x) == SelectSeq(s, LAMBDA y : y # x)

Subst(s, from, to) == [i \in 1..Len(s) |-> IF s[i] = from THEN to ELSE s[i]]

\* Node::kind(); the param node is prim::Param.
KindOf(G, n) == IF n = NoNode THEN "prim::Param" ELSE G.nodes[n].kind

\* Nodes linked in some block list.
InGraph(G, n) == n \in 1..Len(G.nodes) /\ G.nodes[n].owner # NoNode

LiveNodes(G) == {n \in 1..Len(G.nodes) : ~G.nodes[n].freed}

\* Value::uses(): the (node, slot) pairs and the (block, return slot) pairs.
NodeUses(G, v) ==
  UNION {{<<n, i>> : i \in {j \in 1..Len(G.nodes[n].inputs) :
                                G.nodes[n].inputs[j] = v}} :
           n \in LiveNodes(G)}

RetUses(G, v) ==
  UNION {{<<k, i>> : i \in {j \in 1..Len(G.blocks[k].outputs) :
                                G.blocks[k].outputs[j] = v}} :
           k \in 1..Len(G.blocks)}

HasUses(G, v) == NodeUses(G, v) # {} \/ RetUses(G, v) # {}

\* Graph::create(kind, num_outputs): a node in no block, its outputs typed
\* Tensor and named after their id.
NewValue(G, n, type, name) ==
  [G EXCEPT !.vals = Append(@, [type |-> type, name |-> name, node |-> n]),
            !.nodes[n].outputs = Append(@, Len(G.vals) + 1)]

CreateNode(G, kind, attr, num_outputs) ==
  LET n == Len(G.nodes) + 1
      G1 == [G EXCEPT !.nodes = Append(@,
               [kind |-> kind, inputs |-> <<>>, outputs |-> <<>>,
                blocks |-> <<>>, owner |-> NoNode, attr |-> attr,
                freed |-> FALSE])]
  IN IF num_outputs = 0 THEN G1
     ELSE NewValue(G1, n, TensorType, ToString(Len(G.vals) + 1))

LastNode(G) == Len(G.nodes)

\* Value::setUniqueName: a value that already holds the name is renamed
\* with a numeric suffix.
SetUniqueName(G, v, name) ==
  LET holders == {u \in 1..Len(G.vals) : u # v /\ G.vals[u].name = name}
      names == {G.vals[u].name : u \in 1..Len(G.vals)}
      k == CHOOSE j \in 1..(Len(G.vals) + 1) :
             /\ (name \o "." \o ToString(j)) \notin names
             /\ \A i \in 1..(j - 1) : (name \o "." \o ToString(i)) \in names
  IN [G EXCEPT !.vals = [u \in 1..Len(G.vals) |->
        IF u = v THEN [G.vals[u] EXCEPT !.name = name]
        ELSE IF u \in holders
             THEN [G.vals[u] EXCEPT !.name = name \o "." \o ToString(k)]
             ELSE G.vals[u]]]

\* Node::insertBefore(anchor); the anchor NoNode is the root block's return node.
InsertBefore(G, n, anchor) ==
  LET k == IF anchor = NoNode THEN 1 ELSE G.nodes[anchor].owner
      pos == IF anchor = NoNode THEN Len(G.blocks[k].nodes) + 1
             ELSE IndexOf(G.blocks[k].nodes, anchor)
  IN [G EXCEPT !.blocks[k].nodes = InsertAt(@, pos, n),
               !.nodes[n].owner = k]

\* Node::insertAfter(anchor)
InsertAfter(G, n, anchor) ==
  LET k == G.nodes[anchor].owner
      pos == IndexOf(G.blocks[k].nodes, anchor) + 1
  IN [G EXCEPT !.blocks[k].nodes = InsertAt(@, pos, n),
               !.nodes[n].owner = k]

\* Graph::insertConstant(value) under WithInsertPoint(anchor): a constant
\* node placed before the anchor; returns the graph, the constant's value
\* is the last value of the graph.
InsertConstant(G, anchor, type, payload) ==
  LET G1 == CreateNode(G, "prim::Constant", payload, 1)
      G2 == [G1 EXCEPT !.vals[Len(G1.vals)].type = type]
  IN InsertBefore(G2, LastNode(G2), anchor)

LastValue(G) == Len(G.vals)

\* Node::addInput
AddInput(G, n, v) == [G EXCEPT !.nodes[n].inputs = Append(@, v)]

\* Value::replaceAllUsesWith: every consumer's slot, block returns included.
ReplaceAllUsesWith(G, v, w) ==
  [G EXCEPT
     !.nodes = [n \in 1..Len(G.nodes) |->
                  [G.nodes[n] EXCEPT !.inputs = Subst(@, v, w)]],
     !.blocks = [k \in 1..Len(G.blocks) |->
                  [G.blocks[k] EXCEPT !.outputs = Subst(@, v, w)]]]

\* Node::replaceInputWith: every slot of n that holds `from`.
ReplaceInputWith(G, n, from, to) ==
  [G EXCEPT !.nodes[n].inputs = Subst(@, from, to)]

\* Nodes nested (at any depth) in the blocks of n, n included.
RECURSIVE Nested(_, _)
Nested(G, n) ==
  {n} \cup UNION {Nested(G, m) :
                    m \in UNION {Range(G.blocks[k].nodes) :
                                   k \in Range(G.nodes[n].blocks)}}

\* Node::destroy succeeds only when no output of the node (or of a node
\* in its blocks) has a use outside the destroyed nodes: eraseOutput
\* asserts uses().empty().
CanDestroy(G, n) ==
  /\ ~G.nodes[n].freed
  /\ \A m \in Nested(G, n) : \A o \in Range(G.nodes[m].outputs) :
        /\ RetUses(G, o) \subseteq
             {<<k, i>> \in RetUses(G, o) :
                 k \in UNION {Range(G.nodes[d].blocks) : d \in Nested(G, n)}}
        /\ \A u \in NodeUses(G, o) : u[1] \in Nested(G, n)

\* Node::destroy: outputs and blocks erased, inputs dropped, unlinked, freed.
Destroy(G, n) ==
  LET dead == Nested(G, n)
  IN [G EXCEPT
        !.nodes = [m \in 1..Len(G.nodes) |->
                     IF m \in dead
                     THEN [G.nodes[m] EXCEPT !.inputs = <<>>, !.outputs = <<>>,
                             !.blocks = <<>>, !.owner = NoNode, !.freed = TRUE]
                     ELSE G.nodes[m]],
        !.blocks = [k \in 1..Len(G.blocks) |->
                     IF G.blocks[k].owner \in dead
                     THEN [G.blocks[k] EXCEPT !.nodes = <<>>, !.outputs = <<>>]
                     ELSE [G.blocks[k] EXCEPT
                             !.nodes = SelectSeq(@, LAMBDA m : m \notin dead)]]]

(***************************************************************************)
(* The graphs the passes are run on.  A graph is built from a recipe:      *)
(* graph inputs, then the nodes in definition order, each with one output; *)
(* value ids are the inputs 1..k followed by node j's output k + j.        *)
(***************************************************************************)
NodeSpec(kind, in, blk, ty, attr) ==
  [kind |-> kind, in |-> in, blk |-> blk, ty |-> ty, attr |-> attr]

BuildGraph(r) ==
  LET k == Len(r.ins)
      n == Len(r.body)
  IN [nodes |-> [j \in 1..n |->
                   [kind |-> r.body[j].kind, inputs |-> r.body[j].in,
                    outputs |-> <<k + j>>,
                    blocks |-> SelectSeq([i \in 1..Len(r.owners) |-> i],
                                         LAMBDA i : r.owners[i] = j),
                    owner |-> r.body[j].blk, attr |-> r.body[j].attr,
                    freed |-> FALSE]],
      vals |-> [i \in 1..(k + n) |->
                   IF i <= k
                   THEN [type |-> r.ins[i], name |-> "i" \o ToString(i),
                         node |-> NoNode]
                   ELSE [type |-> r.body[i - k].ty,
                         name |-> "v" \o ToString(i - k), node |-> i - k]],
      blocks |-> [i \in 1..Len(r.owners) |->
                   [nodes |-> SelectSeq([j \in 1..n |-> j],
                                        LAMBDA j : r.body[j].blk = i),
                    outputs |-> r.rets[i], owner |-> r.owners[i]]],
      inputs |-> [i \in 1..k |-> i]]

Repeat(x, n) == [i \in 1..n |-> x]

SeqsUpTo(S, n) == UNION {[1..m -> S] : m \in 0..n}

\* Fan-out graphs: input i1, a producer P of v1 = P(i1 ...), up to
\* MaxConsumers consumers of v1, and v1 (or the last value) returned.
ProducerShapes ==
  {NodeSpec("aten::conv2d", <<1>>, 1, TensorType, ""),
   NodeSpec("aten::conv2d", <<1, 1>>, 1, TensorType, ""),
   NodeSpec("aten::add", <<1>>, 1, TensorType, "")}

ConsumerShapes ==
  {NodeSpec("aten::relu", <<2>>, 1, TensorType, ""),
   NodeSpec("aten::add", <<2, 1>>, 1, TensorType, ""),
   NodeSpec("aten::conv2d", <<2, 2>>, 1, TensorType, "")}

FanRecipes ==
  UNION {{[ins |-> <<TensorType>>, np |-> 0, body |-> <<p>> \o cs,
           owners |-> <<NoNode>>, rets |-> <<ret>>] :
            ret \in {Repeat(2, m) : m \in 0..MaxReturns}
                     \cup {<<2 + Len(cs)>>}} :
           p \in ProducerShapes, cs \in SeqsUpTo(ConsumerShapes, MaxConsumers)}

\* Input-kind graphs: up to MaxInputs graph inputs, tensor or not, the
\* trailing np of them module parameters; one conv2d consuming all of them
\* and one aten::size with a non-tensor output.  No input: no node.
InputRecipes ==
  {[ins |-> ts, np |-> np,
    body |-> IF Len(ts) = 0 THEN <<>>
             ELSE <<NodeSpec("aten::conv2d", [i \in 1..Len(ts) |-> i], 1,
                             TensorType, ""),
                    NodeSpec("aten::size", <<1>>, 1, "int", "")>>,
    owners |-> <<NoNode>>,
    rets |-> <<IF Len(ts) = 0 THEN <<>> ELSE <<Len(ts) + 1>>>>] :
     ts \in SeqsUpTo({TensorType, "int"}, MaxInputs), np \in 0..MaxInputs}

\* Nested graphs: a chain of d <= MaxDepth owners, each a prim::If or a
\* prim::PythonOp call f(i1, "tag"), each with one or two blocks.  The
\* first block of an owner holds the next owner, the deepest one a relu
\* whose output the block returns; a second block holds one add.
RECURSIVE NestBuild(_, _, _, _)
NestBuild(kinds, nbs, lvl, acc) ==
  LET cur == IF lvl = 1 THEN 1 ELSE acc.into
      n == Len(acc.body)
  IN IF lvl > Len(kinds)
     THEN [acc EXCEPT
             !.body = Append(@, NodeSpec("aten::relu", <<1>>, cur,
                                         TensorType, "")),
             !.rets[cur] = <<1 + n + 1>>]
     ELSE LET py == kinds[lvl] = "prim::PythonOp"
              pre == IF py
                     THEN <<NodeSpec("prim::Constant", <<>>, cur, "str", "tag")>>
                     ELSE <<>>
              own == n + Len(pre) + 1
              nblk == Len(acc.owners)
              node == NodeSpec(kinds[lvl],
                               IF py THEN <<1, 1 + n + 1>> ELSE <<>>, cur,
                               TensorType, IF py THEN "user" ELSE "")
              side == IF nbs[lvl] = 2
                      THEN <<NodeSpec("aten::add", <<1>>, nblk + 2,
                                      TensorType, "")>>
                      ELSE <<>>
          IN NestBuild(kinds, nbs, lvl + 1,
               [body |-> acc.body \o pre \o <<node>> \o side,
                owners |-> acc.owners \o Repeat(own, nbs[lvl]),
                rets |-> acc.rets \o Repeat(<<>>, nbs[lvl]),
                into |-> nblk + 1])

NestRecipes ==
  UNION {{LET r == NestBuild(kinds, nbs, 1,
                     [body |-> <<>>, owners |-> <<NoNode>>,
                      rets |-> <<<<>>>>, into |-> 1])
          IN [ins |-> <<TensorType>>, np |-> 0, body |-> r.body,
              owners |-> r.owners, rets |-> r.rets] :
            kinds \in [1..d -> {"prim::If", "prim::PythonOp"}],
            nbs \in [1..d -> {1, 2}]} : d \in 1..MaxDepth}

\* Call graphs: v1 = conv2d(i1) is the first argument of a user's
\* prim::PythonOp call f(v1, "tag"), whose output has no consumer or one
\* relu; v1 is returned.
CallRecipes ==
  {[ins |-> <<TensorType>>, np |-> 0,
    body |-> <<NodeSpec("aten::conv2d", <<1>>, 1, TensorType, ""),
               NodeSpec("prim::Constant", <<>>, 1, "str", "tag"),
               NodeSpec("prim::PythonOp", <<2, 3>>, 1, TensorType, "user")>>
               \o cs,
    owners |-> <<NoNode>>, rets |-> <<<<2>>>>] :
     cs \in {<<>>, <<NodeSpec("aten::relu", <<4>>, 1, TensorType, "")>>}}

Recipes == FanRecipes \cup InputRecipes \cup NestRecipes \cup CallRecipes

\* Multi-output graphs: i1 feeds one aten::topk node with 2..MaxOutputs
\* tensor outputs (v1 and the values appended after the recipe's values),
\* followed by no consumer, a relu of v1 or an add of the first two
\* outputs; the last value of the recipe is returned.
WithOutputs(G, n, m) ==
  LET nv == Len(G.vals)
  IN [nodes |-> [j \in 1..Len(G.nodes) |->
                   [kind |-> G.nodes[j].kind, inputs |-> G.nodes[j].inputs,
                    outputs |-> IF j = n
                                THEN G.nodes[j].outputs
                                       \o [i \in 1..(m - 1) |-> nv + i]
                                ELSE G.nodes[j].outputs,
                    blocks |-> G.nodes[j].blocks, owner |-> G.nodes[j].owner,
                    attr |-> G.nodes[j].attr, freed |-> G.nodes[j].freed]],
      vals |-> [i \in 1..(nv + m - 1) |->
                  IF i <= nv THEN G.vals[i]
                  ELSE [type |-> TensorType,
                        name |-> "v" \o ToString(n) \o "_" \o ToString(i - nv),
                        node |-> n]],
      blocks |-> G.blocks,
      inputs |-> G.inputs]

MultiOutputRecipes ==
  {[ins |-> <<TensorType>>, np |-> 0,
    body |-> <<NodeSpec("aten::topk", <<1>>, 1, TensorType, "")>> \o cs,
    owners |-> <<NoNode>>, rets |-> <<<<2 + Len(cs)>>>>] :
     cs \in {<<>>,
             <<NodeSpec("aten::relu", <<2>>, 1, TensorType, "")>>,
             <<NodeSpec("aten::add", <<2, 4>>, 1, TensorType, "")>>}}

\* The graphs the passes are started on, each with the number of module
\* parameters among its inputs.
Cases ==
  {[graph |-> BuildGraph(r), np |-> r.np] : r \in Recipes}
    \cup {[graph |-> WithOutputs(BuildGraph(r), 1, m), np |-> r.np] :
            r \in MultiOutputRecipes, m \in 2..MaxOutputs}

(***************************************************************************)
(* Initial state: a graph of one of the recipes, no pass started.          *)
(***************************************************************************)
NullPtr == "nullptr"

EmptyGraph == [nodes |-> <<>>, vals |-> <<>>, blocks |-> <<>>, inputs |-> <<>>]

Init ==
  /\ \E c \in Cases :
       /\ graph = c.graph
       /\ numParams = c.np
  /\ pc = "idle"
  /\ observerNodeDict = <<>>
  /\ activation_observer = NullPtr
  /\ param_observer = NullPtr
  /\ idx = 1
  /\ insert_node = NoNode
  /\ blocks_to_visit = <<>>
  /\ b = NoNode
  /\ it = 1
  /\ values_to_observe = <<>>
  /\ qparam_dict = <<>>
  /\ qparam_value_dict = <<>>
  /\ quantInputs = <<>>
  /\ quantOutputs = <<>>
  /\ valueLookup = {}
  /\ nodes_to_remove = <<>>
  /\ visited = <<>>
  /\ popped = <<>>
  /\ graph0 = EmptyGraph
  /\ graphIn = graph
  /\ calls = <<>>
  /\ runs = 0

(***************************************************************************)
(* Helpers of the passes.                                                  *)
(***************************************************************************)
\* Mutant: before and after are swapped.
insertNodeHelper_Flipped(G, new_n, ins_node, insert_after) ==
  IF insert_after /\ ins_node # NoNode THEN InsertBefore(G, new_n, ins_node)
  ELSE IF ins_node # NoNode THEN InsertAfter(G, new_n, ins_node)
  ELSE InsertBefore(G, new_n, ins_node)

\* insertNodeHelper
insertNodeHelper(G, new_n, ins_node, insert_after) ==
  IF insert_after THEN InsertAfter(G, new_n, ins_node)
  ELSE InsertBefore(G, new_n, ins_node)

\* checkIfNodeQuantizable: membership of the node's operator in quantnodeLookup.
quantnodeLookup == {"aten::conv2d", "aten::relu", "aten::_convolution"}

checkIfNodeQuantizable(G, n) == KindOf(G, n) \in quantnodeLookup

\* v->type()->isSubtypeOf(TensorType::get())
IsTensor(G, v) == G.vals[v].type = TensorType

\* Mutant: the name constant holds the name of the observer's output.
addObserverFor_ObservedName(G, v, original_observer_node, insert_info) ==
  LET def == insert_info[1]
      G1 == InsertConstant(G, def, "str", G.vals[v].name \o ".observed")
      vname == LastValue(G1)
      G2 == CreateNode(G1, "prim::PythonOp", original_observer_node, 0)
      observerNode == LastNode(G2)
      G3 == insertNodeHelper(G2, observerNode, def, insert_info[2])
      G4 == NewValue(G3, observerNode, G.vals[v].type,
                     ToString(Len(G3.vals) + 1))
      observedValue == LastValue(G4)
      G5 == SetUniqueName(G4, observedValue, G.vals[v].name \o ".observed")
  IN AddInput(AddInput(G5, observerNode, v), observerNode, vname)

\* Mutant: the observer's output takes the place of v in every use of v.
addObserverFor_Substituted(G, v, original_observer_node, insert_info) ==
  LET def == insert_info[1]
      G1 == InsertConstant(G, def, "str", G.vals[v].name)
      vname == LastValue(G1)
      G2 == CreateNode(G1, "prim::PythonOp", original_observer_node, 0)
      observerNode == LastNode(G2)
      G3 == insertNodeHelper(G2, observerNode, def, insert_info[2])
      G4 == NewValue(G3, observerNode, G.vals[v].type,
                     ToString(Len(G3.vals) + 1))
      observedValue == LastValue(G4)
      G5 == SetUniqueName(G4, observedValue, G.vals[v].name \o ".observed")
      G6 == ReplaceAllUsesWith(G5, v, observedValue)
  IN AddInput(AddInput(G6, observerNode, v), observerNode, vname)

\* addObserverFor: the name constant goes before def (the insert point),
\* the clone of the template before or after def; the clone gets one
\* output (type of v, name of v + ".observed") and the inputs (v, vname).
addObserverFor(G, v, original_observer_node, insert_info) ==
  LET def == insert_info[1]
      G1 == InsertConstant(G, def, "str", G.vals[v].name)
      vname == LastValue(G1)
      G2 == CreateNode(G1, "prim::PythonOp", original_observer_node, 0)
      observerNode == LastNode(G2)
      G3 == insertNodeHelper(G2, observerNode, def, insert_info[2])
      G4 == NewValue(G3, observerNode, G.vals[v].type,
                     ToString(Len(G3.vals) + 1))
      observedValue == LastValue(G4)
      G5 == SetUniqueName(G4, observedValue, G.vals[v].name \o ".observed")
  IN AddInput(AddInput(G5, observerNode, v), observerNode, vname)

\* outputsNeedToBeObserved
outputsNeedToBeObserved(G, n) ==
  KindOf(G, n) # "prim::Constant" /\ KindOf(G, n) # "prim::PythonOp"

(***************************************************************************)
(* InsertObserverNodes                                                     *)
(***************************************************************************)
ObserverKeys == {"activation", "param"}

\* The template node the caller built for an observer kind.
TemplateFor(key) == "observer_" \o key

passVars == <<qparam_dict, qparam_value_dict, quantInputs, quantOutputs,
              valueLookup, nodes_to_remove, calls, runs>>

\* Lines 171-195: read the templates, locate the parameter range and the
\* insert point.  AT_ASSERT(param_start_index >= 0) fails when the method
\* has more initial values than the graph has inputs.
ObsBegin ==
  /\ pc = "idle"
  /\ \E keys \in SUBSET ObserverKeys :
       /\ observerNodeDict' = [k \in keys |-> TemplateFor(k)]
       /\ activation_observer' =
            IF "activation" \in keys THEN TemplateFor("activation") ELSE NullPtr
       /\ param_observer' =
            IF "param" \in keys THEN TemplateFor("param") ELSE NullPtr
  /\ IF numParams > Len(graph.inputs)
     THEN pc' = "failed" /\ UNCHANGED insert_node
     ELSE /\ pc' = "obs_inputs"
          /\ insert_node' = IF graph.blocks[1].nodes = <<>> THEN NoNode
                            ELSE Head(graph.blocks[1].nodes)
  /\ idx' = 1
  /\ graph0' = graph
  /\ visited' = <<>>
  /\ popped' = <<>>
  /\ calls' = <<>>
  /\ UNCHANGED <<graph, numParams, blocks_to_visit, b, it, values_to_observe,
                 graphIn, runs>>
  /\ UNCHANGED <<qparam_dict, qparam_value_dict, quantInputs, quantOutputs,
                 valueLookup, nodes_to_remove>>

param_start_index == Len(graph.inputs) - numParams

\* Mutant: the boundary input is taken for external data.
SelectObserver_OffByOne(i, start, act, par) ==
  IF i <= start THEN act ELSE par

\* Lines 199-200: the observer for graph input i (counted from 0).
SelectObserver(i, start, act, par) ==
  IF i < start THEN act ELSE par

\* Lines 196-209: one iteration of the loop over the graph inputs.
ObsInput ==
  /\ pc = "obs_inputs"
  /\ idx <= Len(graph.inputs)
  /\ LET observer == SelectObserver(idx - 1, param_start_index,
                                    activation_observer, param_observer)
         v == graph.inputs[idx]
     IN graph' = IF observer # NullPtr /\ IsTensor(graph, v)
                 THEN addObserverFor(graph, v, observer, <<insert_node, FALSE>>)
                 ELSE graph
  /\ idx' = idx + 1
  /\ UNCHANGED <<numParams, pc, observerNodeDict, activation_observer,
                 param_observer, insert_node, blocks_to_visit, b, it,
                 values_to_observe, visited, popped, graph0, graphIn>>
  /\ UNCHANGED passVars

\* Line 211: the worklist is seeded with the root block.
ObsPush ==
  /\ pc = "obs_inputs"
  /\ idx > Len(graph.inputs)
  /\ blocks_to_visit' = <<1>>
  /\ b' = NoNode
  /\ pc' = "obs_walk"
  /\ UNCHANGED <<graph, numParams, observerNodeDict, activation_observer,
                 param_observer, idx, insert_node, it, values_to_observe,
                 visited, popped, graph0, graphIn>>
  /\ UNCHANGED passVars

\* The node loop of block b has run off the end of the block (or no block
\* was popped yet).
AtBlockEnd == IF b = NoNode THEN TRUE ELSE it > Len(graph.blocks[b].nodes)

\* Lines 212-214: pop the next block.
ObsPop ==
  /\ pc = "obs_walk"
  /\ AtBlockEnd
  /\ blocks_to_visit # <<>>
  /\ b' = blocks_to_visit[Len(blocks_to_visit)]
  /\ blocks_to_visit' = SubSeq(blocks_to_visit, 1, Len(blocks_to_visit) - 1)
  /\ it' = 1
  /\ popped' = Append(popped, b')
  /\ UNCHANGED <<graph, numParams, pc, observerNodeDict, activation_observer,
                 param_observer, idx, insert_node, values_to_observe, visited,
                 graph0, graphIn>>
  /\ UNCHANGED passVars

\* Lines 216-236: one iteration of the node loop.  A node whose outputs
\* need no observer is skipped before its subblocks are scheduled.
ObsSchedule(G, n, stack) ==
  IF outputsNeedToBeObserved(G, n) THEN stack \o G.nodes[n].blocks ELSE stack

ObsCollect(G, n, act, list) ==
  IF outputsNeedToBeObserved(G, n) /\ act # NullPtr
  THEN list \o G.nodes[n].outputs ELSE list

ObsNode ==
  /\ pc = "obs_walk"
  /\ ~AtBlockEnd
  /\ LET n == graph.blocks[b].nodes[it]
     IN /\ blocks_to_visit' = ObsSchedule(graph, n, blocks_to_visit)
        /\ values_to_observe' =
             ObsCollect(graph, n, activation_observer, values_to_observe)
        /\ visited' = Append(visited, n)
  /\ it' = it + 1
  /\ UNCHANGED <<graph, numParams, pc, observerNodeDict, activation_observer,
                 param_observer, idx, insert_node, b, popped, graph0, graphIn>>
  /\ UNCHANGED passVars

\* Line 237: the worklist is empty, the traversal ends.
ObsWalkDone ==
  /\ pc = "obs_walk"
  /\ AtBlockEnd
  /\ blocks_to_visit = <<>>
  /\ pc' = "obs_add"
  /\ idx' = 1
  /\ b' = NoNode
  /\ UNCHANGED <<graph, numParams, observerNodeDict, activation_observer,
                 param_observer, insert_node, blocks_to_visit, it,
                 values_to_observe, visited, popped, graph0, graphIn>>
  /\ UNCHANGED passVars

\* Mutant: the activation observer goes before the producer.
ActivationInsertInfo_Before(G, v) == <<G.vals[v].node, FALSE>>

\* Line 243: std::make_pair(v->node(), true)
ActivationInsertInfo(G, v) == <<G.vals[v].node, TRUE>>

\* Lines 240-245: one iteration of the loop that adds activation observers.
ObsAdd ==
  /\ pc = "obs_add"
  /\ idx <= Len(values_to_observe)
  /\ LET v == values_to_observe[idx]
     IN graph' = IF IsTensor(graph, v)
                 THEN addObserverFor(graph, v, activation_observer,
                                     ActivationInsertInfo(graph, v))
                 ELSE graph
  /\ idx' = idx + 1
  /\ UNCHANGED <<numParams, pc, observerNodeDict, activation_observer,
                 param_observer, insert_node, blocks_to_visit, b, it,
                 values_to_observe, visited, popped, graph0, graphIn>>
  /\ UNCHANGED passVars

\* Line 246: InsertObserverNodes returns.
ObsDone ==
  /\ pc = "obs_add"
  /\ idx > Len(values_to_observe)
  /\ pc' = "observed"
  /\ UNCHANGED <<graph, numParams, observerNodeDict, activation_observer,
                 param_observer, idx, insert_node, blocks_to_visit, b, it,
                 values_to_observe, visited, popped, graph0, graphIn>>
  /\ UNCHANGED passVars

ObsNext ==
  \/ ObsBegin
  \/ ObsInput
  \/ ObsPush
  \/ ObsPop
  \/ ObsNode
  \/ ObsWalkDone
  \/ ObsAdd
  \/ ObsDone

(***************************************************************************)
(* InsertQuantDequantNodes                                                 *)
(***************************************************************************)
\* createQuantNode / createDeQuantNode: a node with one output named after v.
createQuantNode(G, v) ==
  LET G1 == CreateNode(G, "aten::quantize_linear", "", 1)
  IN SetUniqueName(G1, LastValue(G1), G.vals[v].name \o ".quant")

createDeQuantNode(G, v) ==
  LET G1 == CreateNode(G, "aten::dequantize", "", 1)
  IN SetUniqueName(G1, LastValue(G1), G.vals[v].name \o ".dequant")

\* insertQuantNodeParams: the two constants go before the quant node and
\* become its next inputs.
insertQuantNodeParams(G, quant, scale, zero_point) ==
  LET G1 == InsertConstant(G, quant, "float", ToString(scale))
      scale_v == LastValue(G1)
      G2 == InsertConstant(G1, quant, "int", ToString(zero_point))
      zeropoint_v == LastValue(G2)
  IN AddInput(AddInput(G2, quant, scale_v), quant, zeropoint_v)

\* addQuantDeQuantNodes: the pair goes after v's node, every use of v moves
\* to the dequant output, then the quant node takes v.
addQuantDeQuantNodes(G, v, qparam) ==
  LET n == G.vals[v].node
      G1 == createQuantNode(G, v)
      quant == LastNode(G1)
      G2 == createDeQuantNode(G1, v)
      dequant == LastNode(G2)
      G3 == InsertAfter(G2, quant, n)
      G4 == InsertAfter(G3, dequant, quant)
      G5 == ReplaceAllUsesWith(G4, v, G4.nodes[dequant].outputs[1])
      G6 == AddInput(G5, quant, v)
      G7 == insertQuantNodeParams(G6, quant, qparam[2], qparam[3])
  IN AddInput(G7, dequant, G7.nodes[quant].outputs[1])

\* addQuantDeQuantNodesForInput: the pair goes before n and n's inputs
\* that hold v move to the dequant output.
addQuantDeQuantNodesForInput(G, v, n, qparam) ==
  LET G1 == createQuantNode(G, v)
      quant == LastNode(G1)
      G2 == createDeQuantNode(G1, v)
      dequant == LastNode(G2)
      G3 == InsertBefore(G2, dequant, n)
      G4 == InsertBefore(G3, quant, dequant)
      G5 == ReplaceInputWith(G4, n, v, G4.nodes[dequant].outputs[1])
      G6 == AddInput(G5, quant, v)
      G7 == insertQuantNodeParams(G6, quant, qparam[2], qparam[3])
  IN AddInput(G7, dequant, G7.nodes[quant].outputs[1])

\* toIValue(vname): the payload of a constant, none for any other value.
HasIValue(G, v) == KindOf(G, G.vals[v].node) = "prim::Constant"

toIValue(G, v) == G.nodes[G.vals[v].node].attr

\* matchQParamDictKeytoObserver, its three outcomes: an exception when
\* input 1 is no string constant, no match, or a match.
matchThrows(G, n) ==
  /\ KindOf(G, n) = "prim::PythonOp"
  /\ ~(HasIValue(G, G.nodes[n].inputs[2])
        /\ G.vals[G.nodes[n].inputs[2]].type = "str")

\* Mutant: the dictionary test is dropped, every opaque call matches.
matchQParamDictKeytoObserver_NoKeyTest(G, n, dict) ==
  KindOf(G, n) = "prim::PythonOp"

matchQParamDictKeytoObserver(G, n, dict) ==
  /\ KindOf(G, n) = "prim::PythonOp"
  /\ toIValue(G, G.nodes[n].inputs[2]) \in DOMAIN dict

\* qparam_dict[key], qparam_value_dict[v]: operator[] of unordered_map
\* yields a value-initialised tuple for a missing key.
Lookup(map, key) ==
  IF key \in DOMAIN map THEN map[key] ELSE <<"", 0, 0>>

\* Mutant: the rewrite loops do not test the map.
HasQParam_Always(map, v) == TRUE

\* qparam_value_dict.count(v) != 0
HasQParam(map, v) == v \in DOMAIN map

\* qparam_value_dict.emplace(v, qparam_dict[key]): an existing entry stays.
Emplace(map, v, e) ==
  IF v \in DOMAIN map THEN map ELSE map @@ (v :> e)

\* The calibration dictionaries: up to MaxDictKeys keys among the names
\* of the values the observers of the graph observe and the names of the
\* observers' outputs; the entry of a key is told from the others by its
\* tag.
ObserverTexts(G) ==
  UNION {{G.vals[G.nodes[n].inputs[1]].name, G.vals[G.nodes[n].outputs[1]].name} :
     n \in {m \in 1..Len(G.nodes) :
              /\ G.nodes[m].kind = "prim::PythonOp"
              /\ G.nodes[m].attr \in {TemplateFor(k) : k \in ObserverKeys}}}

KeyUniverse(G) == ObserverTexts(G)

QParamOf(key) == <<"qparam:" \o key, Len(key), Len(key) % 2>>

CalibrationDicts(G) ==
  {[k \in keys |-> QParamOf(k)] :
     keys \in {K \in SUBSET KeyUniverse(G) : Cardinality(K) <= MaxDictKeys}}

frameObs == <<numParams, observerNodeDict, activation_observer,
              param_observer, insert_node, values_to_observe, graphIn>>

\* Dictionaries that may also have a key that is the text of a string
\* constant of the program (the second argument of a user's opaque call).
ConstantTexts(G) ==
  {G.nodes[n].attr : n \in {m \in 1..Len(G.nodes) :
      /\ InGraph(G, m)
      /\ G.nodes[m].kind = "prim::Constant"
      /\ G.vals[G.nodes[m].outputs[1]].type = "str"}}

AnyKeyDicts(G) ==
  {[k \in keys |-> QParamOf(k)] :
     keys \in {K \in SUBSET (KeyUniverse(G) \cup ConstantTexts(G)) :
                Cardinality(K) <= MaxDictKeys}}

\* Lines 248-268: the worklist is seeded with the root block, the lists
\* and maps start empty.  The caller passes one of dicts.
QBeginWith(dicts) ==
  /\ pc = "observed"
  /\ \E dict \in dicts : qparam_dict' = dict
  /\ pc' = "q_walk"
  /\ blocks_to_visit' = <<1>>
  /\ b' = NoNode
  /\ it' = 1
  /\ idx' = 1
  /\ qparam_value_dict' = <<>>
  /\ quantInputs' = <<>>
  /\ quantOutputs' = <<>>
  /\ valueLookup' = {}
  /\ nodes_to_remove' = <<>>
  /\ visited' = <<>>
  /\ popped' = <<>>
  /\ graph0' = graph
  /\ calls' = <<>>
  /\ runs' = 1
  /\ UNCHANGED graph
  /\ UNCHANGED frameObs

QBegin == QBeginWith(CalibrationDicts(graph))

QBeginAnyKey == QBeginWith(AnyKeyDicts(graph))

\* Lines 270-272: pop the next block.
QPop ==
  /\ pc = "q_walk"
  /\ b = NoNode
  /\ blocks_to_visit # <<>>
  /\ b' = blocks_to_visit[Len(blocks_to_visit)]
  /\ blocks_to_visit' = SubSeq(blocks_to_visit, 1, Len(blocks_to_visit) - 1)
  /\ it' = 1
  /\ popped' = Append(popped, b')
  /\ UNCHANGED <<graph, pc, idx, visited, graph0>>
  /\ UNCHANGED frameObs
  /\ UNCHANGED passVars

\* Mutant: the two classifications are not exclusive ("if" for "else if").
ClassifyInput_NoElse(G, n, v, st) ==
  IF ~IsTensor(G, v) THEN st
  ELSE LET s1 == IF checkIfNodeQuantizable(G, G.vals[v].node)
                    /\ v \notin st.valueLookup
                 THEN [st EXCEPT !.valueLookup = @ \cup {v},
                                 !.quantOutputs = Append(@, v)]
                 ELSE st
       IN IF checkIfNodeQuantizable(G, n)
          THEN [s1 EXCEPT !.quantInputs = Append(@, <<v, n>>)]
          ELSE s1

\* Lines 292-320: the classification of input v of node n.  st holds
\* quantInputs, quantOutputs and valueLookup.
ClassifyInput(G, n, v, st) ==
  IF ~IsTensor(G, v) THEN st
  ELSE IF checkIfNodeQuantizable(G, G.vals[v].node)
  THEN IF v \in st.valueLookup THEN st
       ELSE [st EXCEPT !.valueLookup = @ \cup {v},
                       !.quantOutputs = Append(@, v)]
  ELSE IF checkIfNodeQuantizable(G, n)
  THEN [st EXCEPT !.quantInputs = Append(@, <<v, n>>)]
  ELSE st

\* Line 291: the loop over the inputs of n, from input k on.
RECURSIVE Classify(_, _, _, _)
Classify(G, n, k, st) ==
  IF k > Len(G.nodes[n].inputs) THEN st
  ELSE Classify(G, n, k + 1, ClassifyInput(G, n, G.nodes[n].inputs[k], st))

\* Mutant: the matched observer and its name constant are destroyed on
\* the spot, while their block is being iterated.
MarkForRemoval_Eager(G, list, n) ==
  LET c == G.vals[G.nodes[n].inputs[2]].node
  IN [graph |-> Destroy(Destroy(G, n), c), nodes_to_remove |-> list]

\* Mutant: the matched observer is bound but not put on the list.
MarkForRemoval_Forgotten(G, list, n) ==
  [graph |-> G, nodes_to_remove |-> list]

\* Lines 284-285: the matched observer and the node of its input 1 are
\* put on nodes_to_remove; the graph is left alone until the traversal
\* has ended.
MarkForRemoval(G, list, n) ==
  [graph |-> G,
   nodes_to_remove |-> list \o <<n, G.vals[G.nodes[n].inputs[2]].node>>]

\* Lines 274-322: one iteration of the node loop.
QNode ==
  /\ pc = "q_walk"
  /\ b # NoNode
  /\ it <= Len(graph.blocks[b].nodes)
  /\ LET n == graph.blocks[b].nodes[it]
         st == Classify(graph, n, 1,
                 [quantInputs |-> quantInputs, quantOutputs |-> quantOutputs,
                  valueLookup |-> valueLookup])
     IN /\ blocks_to_visit' = blocks_to_visit \o graph.nodes[n].blocks
        /\ visited' = Append(visited, n)
        /\ IF matchThrows(graph, n)
           THEN /\ pc' = "failed"
                /\ UNCHANGED <<graph, qparam_dict, qparam_value_dict,
                               quantInputs, quantOutputs, valueLookup,
                               nodes_to_remove>>
           ELSE IF matchQParamDictKeytoObserver(graph, n, qparam_dict)
           THEN /\ qparam_value_dict' =
                     Emplace(qparam_value_dict, graph.nodes[n].inputs[1],
                             Lookup(qparam_dict,
                                    toIValue(graph, graph.nodes[n].inputs[2])))
                /\ LET r == MarkForRemoval(graph, nodes_to_remove, n)
                   IN /\ graph' = r.graph
                      /\ nodes_to_remove' = r.nodes_to_remove
                /\ UNCHANGED <<pc, qparam_dict, quantInputs, quantOutputs,
                               valueLookup>>
           ELSE /\ quantInputs' = st.quantInputs
                /\ quantOutputs' = st.quantOutputs
                /\ valueLookup' = st.valueLookup
                /\ UNCHANGED <<graph, pc, qparam_dict, qparam_value_dict,
                               nodes_to_remove>>
  /\ it' = it + 1
  /\ UNCHANGED <<idx, b, popped, graph0, calls, runs>>
  /\ UNCHANGED frameObs

\* Lines 327-333: the outputs of block b produced by a quantizable node go
\* to quantOutputs; valueLookup is not consulted.
BlockOutputsToQuantize(G, k) ==
  SelectSeq(G.blocks[k].outputs,
            LAMBDA v : checkIfNodeQuantizable(G, G.vals[v].node)
                       /\ IsTensor(G, v))

QBlockOutputs ==
  /\ pc = "q_walk"
  /\ b # NoNode
  /\ it > Len(graph.blocks[b].nodes)
  /\ quantOutputs' = quantOutputs \o BlockOutputsToQuantize(graph, b)
  /\ b' = NoNode
  /\ UNCHANGED <<graph, pc, idx, it, blocks_to_visit, visited, popped, graph0,
                 qparam_dict, qparam_value_dict, quantInputs, valueLookup,
                 nodes_to_remove, calls, runs>>
  /\ UNCHANGED frameObs

\* Line 334: the worklist is empty, the traversal ends.
QWalkDone ==
  /\ pc = "q_walk"
  /\ b = NoNode
  /\ blocks_to_visit = <<>>
  /\ pc' = "q_destroy"
  /\ idx' = 1
  /\ UNCHANGED <<graph, b, it, blocks_to_visit, visited, popped, graph0>>
  /\ UNCHANGED frameObs
  /\ UNCHANGED passVars

\* Lines 337-339: one iteration of the destroy loop.  destroy() asserts
\* that no output of the node is still used; destroying a node a second
\* time is a use after free, which may raise or may go unnoticed.
QDestroy ==
  /\ pc = "q_destroy"
  /\ idx <= Len(nodes_to_remove)
  /\ LET n == nodes_to_remove[idx]
     IN IF graph.nodes[n].freed
        THEN /\ pc' \in {"q_destroy", "failed"}
             /\ UNCHANGED graph
        ELSE IF CanDestroy(graph, n)
        THEN /\ graph' = Destroy(graph, n)
             /\ UNCHANGED pc
        ELSE /\ pc' = "failed"
             /\ UNCHANGED graph
  /\ idx' = idx + 1
  /\ UNCHANGED <<b, it, blocks_to_visit, visited, popped, graph0>>
  /\ UNCHANGED frameObs
  /\ UNCHANGED passVars

QDestroyDone ==
  /\ pc = "q_destroy"
  /\ idx > Len(nodes_to_remove)
  /\ pc' = "q_outputs"
  /\ idx' = 1
  /\ UNCHANGED <<graph, b, it, blocks_to_visit, visited, popped, graph0>>
  /\ UNCHANGED frameObs
  /\ UNCHANGED passVars

\* Lines 342-346: one iteration of the loop over quantOutputs.
QOutput ==
  /\ pc = "q_outputs"
  /\ idx <= Len(quantOutputs)
  /\ LET ele == quantOutputs[idx]
     IN graph' = IF HasQParam(qparam_value_dict, ele)
                 THEN addQuantDeQuantNodes(graph, ele,
                                           Lookup(qparam_value_dict, ele))
                 ELSE graph
  /\ idx' = idx + 1
  /\ UNCHANGED <<pc, b, it, blocks_to_visit, visited, popped, graph0>>
  /\ UNCHANGED frameObs
  /\ UNCHANGED passVars

QOutputsDone ==
  /\ pc = "q_outputs"
  /\ idx > Len(quantOutputs)
  /\ pc' = "q_inputs"
  /\ idx' = 1
  /\ UNCHANGED <<graph, b, it, blocks_to_visit, visited, popped, graph0>>
  /\ UNCHANGED frameObs
  /\ UNCHANGED passVars

\* Lines 349-354: one iteration of the loop over quantInputs.
QInput ==
  /\ pc = "q_inputs"
  /\ idx <= Len(quantInputs)
  /\ LET ele == quantInputs[idx]
     IN IF HasQParam(qparam_value_dict, ele[1]) /\ graph.nodes[ele[2]].freed
        THEN \* the consumer was destroyed with a marked node that owns its
             \* block: insertBefore reads freed memory, the call may raise
             \* or go on without an insertion.
             /\ pc' \in {"q_inputs", "failed"}
             /\ UNCHANGED graph
        ELSE /\ graph' = IF HasQParam(qparam_value_dict, ele[1])
                         THEN addQuantDeQuantNodesForInput(graph, ele[1],
                                ele[2], Lookup(qparam_value_dict, ele[1]))
                         ELSE graph
             /\ UNCHANGED pc
  /\ idx' = idx + 1
  /\ UNCHANGED <<b, it, blocks_to_visit, visited, popped, graph0>>
  /\ UNCHANGED frameObs
  /\ UNCHANGED passVars

\* Line 355: InsertQuantDequantNodes returns.
QDone ==
  /\ pc = "q_inputs"
  /\ idx > Len(quantInputs)
  /\ pc' = "done"
  /\ UNCHANGED <<graph, idx, b, it, blocks_to_visit, visited, popped, graph0>>
  /\ UNCHANGED frameObs
  /\ UNCHANGED passVars

QuantSteps ==
  \/ QPop
  \/ QNode
  \/ QBlockOutputs
  \/ QWalkDone
  \/ QDestroy
  \/ QDestroyDone
  \/ QOutput
  \/ QOutputsDone
  \/ QInput
  \/ QDone

QuantNext == QBegin \/ QuantSteps

(***************************************************************************)
(* The reserved entry points PropagateQuantInfo, QuantLinting and          *)
(* FoldQuantNodesIntoInputsOutputs, called while no pass is running.       *)
(***************************************************************************)
\* throw std::runtime_error(what): the call ends by the exception and
\* leaves the graph it was given.
Throw(G, what) == [graph |-> G, threw |-> TRUE, what |-> what]

\* Lines 136-138
PropagateQuantInfo(G) == Throw(G, "Pass not implemented yet!")

\* Mutant: the entry point returns without a word.
QuantLinting_Silent(G) == [graph |-> G, threw |-> FALSE, what |-> ""]

\* Lines 357-359
QuantLinting(G) == Throw(G, "Pass not implemented yet!")

\* Lines 361-363
FoldQuantNodesIntoInputsOutputs(G) == Throw(G, "Pass not implemented yet!")

\* No pass is running: none was started, or the last one returned or failed.
Between == pc \in {"idle", "observed", "done", "failed"}

\* One call of a reserved entry point and what came of it.
Reserved(entry, out) ==
  /\ Between
  /\ Len(calls) < MaxCalls
  /\ graph' = out.graph
  /\ calls' = Append(calls, [entry |-> entry, threw |-> out.threw,
                              what |-> out.what, given |-> graph])
  /\ UNCHANGED <<pc, idx, b, it, blocks_to_visit, visited, popped, graph0,
                 qparam_dict, qparam_value_dict, quantInputs, quantOutputs,
                 valueLookup, nodes_to_remove, runs>>
  /\ UNCHANGED frameObs

CallPropagateQuantInfo ==
  Reserved("PropagateQuantInfo", PropagateQuantInfo(graph))

CallQuantLinting == Reserved("QuantLinting", QuantLinting(graph))

CallFoldQuantNodesIntoInputsOutputs ==
  Reserved("FoldQuantNodesIntoInputsOutputs",
           FoldQuantNodesIntoInputsOutputs(graph))

ReservedNext ==
  \/ CallPropagateQuantInfo
  \/ CallQuantLinting
  \/ CallFoldQuantNodesIntoInputsOutputs

Next == ObsNext \/ QuantNext \/ ReservedNext

Spec == Init /\ [][Next]_vars

\* InsertQuantDequantNodes is called once more, on the graph its first
\* call left, with the dictionary of the first call.
QRerun ==
  /\ pc = "done"
  /\ runs = 1
  /\ runs' = 2
  /\ pc' = "q_walk"
  /\ blocks_to_visit' = <<1>>
  /\ b' = NoNode
  /\ it' = 1
  /\ idx' = 1
  /\ qparam_value_dict' = <<>>
  /\ quantInputs' = <<>>
  /\ quantOutputs' = <<>>
  /\ valueLookup' = {}
  /\ nodes_to_remove' = <<>>
  /\ visited' = <<>>
  /\ popped' = <<>>
  /\ graph0' = graph
  /\ calls' = <<>>
  /\ UNCHANGED <<graph, qparam_dict>>
  /\ UNCHANGED frameObs

NextTwice == Next \/ QRerun

SpecTwice == Init /\ [][NextTwice]_vars

\* The passes run with a dictionary that may hold any string constant of
\* the program as a key.
NextAnyKey == ObsNext \/ QBeginAnyKey \/ QuantSteps \/ ReservedNext

SpecAnyKey == Init /\ [][NextAnyKey]_vars

(***************************************************************************)
(* Vocabulary of the properties.                                           *)
(***************************************************************************)
\* The pass named has returned.
ObserversInserted == pc = "observed"

QuantDone == pc = "done"

\* The observers InsertObserverNodes created: the clones of a template.
IsObserver(G, n) ==
  /\ G.nodes[n].kind = "prim::PythonOp"
  /\ G.nodes[n].attr \in {TemplateFor(k) : k \in ObserverKeys}

Present(G) == {n \in 1..Len(G.nodes) : InGraph(G, n)}

Observers(G) == {n \in Present(G) : IsObserver(G, n)}

ObserversOf(G, v) == {n \in Observers(G) : G.nodes[n].inputs[1] = v}

\* The value-to-parameter map has an entry for v.
Calibrated(v) == v \in DOMAIN qparam_value_dict

\* Nodes of the graph the pass started on that the pass has not destroyed.
Survivors == {n \in Present(graph0) : ~graph.nodes[n].freed}

\* Uses of v before the pass by nodes that survive it.
FormerNodeUses(v) == {u \in NodeUses(graph0, v) : u[1] \in Survivors}

QuantsOf(G, v) ==
  {q \in Present(G) : /\ G.nodes[q].kind = "aten::quantize_linear"
                      /\ G.nodes[q].inputs # <<>>
                      /\ G.nodes[q].inputs[1] = v}

DequantsOf(G, q) ==
  {d \in Present(G) : /\ G.nodes[d].kind = "aten::dequantize"
                      /\ G.nodes[d].inputs = G.nodes[q].outputs}

\* The quantize nodes fed by v directly or through earlier pairs of v.
RECURSIVE QuantChain(_, _)
QuantChain(G, v) ==
  QuantsOf(G, v) \cup
    UNION {QuantChain(G, G.nodes[d].outputs[1]) :
             d \in UNION {DequantsOf(G, q) : q \in QuantsOf(G, v)}}

\* The node a pair was inserted in front of: the first node after q that
\* is no quantize, dequantize or constant node.
Anchor(G, q) ==
  LET list == G.blocks[G.nodes[q].owner].nodes
      after == {i \in 1..Len(list) :
                  /\ i > IndexOf(list, q)
                  /\ G.nodes[list[i]].kind \notin
                       {"aten::quantize_linear", "aten::dequantize",
                        "prim::Constant"}}
  IN IF after = {} THEN NoNode
     ELSE list[CHOOSE i \in after : \A j \in after : i <= j]

\* C1 (as claimed): after InsertQuantDequantNodes every calibrated tensor
\* value v of a quantizable producer that had a consumer or was a block
\* output has exactly one quantize/dequantize pair at its definition, and
\* every former consumer of v, block returns included, consumes the output
\* of that one dequantize node.
C1_OnePairAtDefinition ==
  QuantDone =>
    \A v \in DOMAIN qparam_value_dict :
      (/\ IsTensor(graph0, v)
       /\ checkIfNodeQuantizable(graph0, graph0.vals[v].node)
       /\ (FormerNodeUses(v) # {} \/ RetUses(graph0, v) # {}))
      => /\ Cardinality(QuantChain(graph, v)) = 1
         /\ \E q \in QuantsOf(graph, v) : \E d \in DequantsOf(graph, q) :
              /\ \A u \in FormerNodeUses(v) :
                    graph.nodes[u[1]].inputs[u[2]] = graph.nodes[d].outputs[1]
              /\ \A u \in RetUses(graph0, v) :
                    graph.blocks[u[1]].outputs[u[2]] = graph.nodes[d].outputs[1]

\* C2 (as claimed): after InsertQuantDequantNodes, for every calibrated
\* tensor value v of a non-quantizable producer and every quantizable
\* consumer n of v, exactly one pair fed by v sits in front of n and every
\* slot of n that held v holds that pair's dequantize output; the
\* non-quantizable consumers of v still hold v.
C2_OnePairPerEdge ==
  QuantDone =>
    \A v \in DOMAIN qparam_value_dict :
      (IsTensor(graph0, v)
         /\ ~checkIfNodeQuantizable(graph0, graph0.vals[v].node))
      => \A u \in FormerNodeUses(v) :
           IF checkIfNodeQuantizable(graph0, u[1])
           THEN LET pairs == {q \in QuantsOf(graph, v) :
                                Anchor(graph, q) = u[1]}
                IN /\ Cardinality(pairs) = 1
                   /\ \A q \in pairs : \E d \in DequantsOf(graph, q) :
                        graph.nodes[u[1]].inputs[u[2]] =
                          graph.nodes[d].outputs[1]
           ELSE graph.nodes[u[1]].inputs[u[2]] = v

\* C3 (as claimed): after InsertObserverNodes with both observer kinds
\* supplied, every tensor graph input and every tensor output of every
\* node of the graph, at any nesting depth, that is neither a constant nor
\* an opaque call is the observed input of exactly one observer; no
\* non-tensor value is observed and no value is observed twice.
C3_ObserverCoverage ==
  (ObserversInserted /\ DOMAIN observerNodeDict = ObserverKeys) =>
    /\ \A i \in 1..Len(graph.inputs) :
         IsTensor(graph, graph.inputs[i])
           => Cardinality(ObserversOf(graph, graph.inputs[i])) = 1
    /\ \A n \in Present(graph0) :
         outputsNeedToBeObserved(graph0, n)
           => \A i \in 1..Len(graph0.nodes[n].outputs) :
                IsTensor(graph0, graph0.nodes[n].outputs[i])
                  => Cardinality(ObserversOf(graph,
                                   graph0.nodes[n].outputs[i])) = 1
    /\ \A v \in 1..Len(graph.vals) :
         /\ Cardinality(ObserversOf(graph, v)) <= 1
         /\ ~IsTensor(graph, v) => ObserversOf(graph, v) = {}

\* The traversal of the running pass has just ended: the graph is the one
\* the traversal walked.
WalkEnded ==
  \/ pc = "obs_add" /\ idx = 1
  \/ pc = "q_destroy" /\ idx = 1

NoDuplicates(s) == \A i, j \in 1..Len(s) : s[i] = s[j] => i = j

\* C10 (as claimed): in both passes, when the traversal ends the worklist
\* is empty, no block was popped twice, and every node of the graph,
\* nested in a subblock of a node of any kind or not, was visited exactly
\* once, the nodes of each block in the block's stored order.
C10_VisitsEveryNodeOnce ==
  WalkEnded =>
    /\ blocks_to_visit = <<>>
    /\ NoDuplicates(popped)
    /\ NoDuplicates(visited)
    /\ Range(visited) = Present(graph)
    /\ \A k \in 1..Len(graph.blocks) :
         k \in Range(popped)
           => SelectSeq(visited, LAMBDA n : graph.nodes[n].owner = k)
                = graph.blocks[k].nodes

\* Phases of InsertQuantDequantNodes.
InQuantPass == pc \in {"q_walk", "q_destroy", "q_outputs", "q_inputs", "done"}

Bound == pc \in {"q_outputs", "q_inputs", "done"}

\* Opaque-call nodes the traversal of the quant pass has visited, and the
\* observers among them.
VisitedCalls ==
  {n \in Range(visited) : graph0.nodes[n].kind = "prim::PythonOp"}

VisitedObservers == {n \in VisitedCalls : IsObserver(graph0, n)}

ObservedValue(n) == graph0.nodes[n].inputs[1]

NameConstant(n) == graph0.vals[graph0.nodes[n].inputs[2]].node

NameText(n) == graph0.nodes[NameConstant(n)].attr

Marked(n) == n \in Range(nodes_to_remove)

\* v was put on quantOutputs for a reason other than a marked observer:
\* an unmarked visited node has it as an input, or a block whose outputs
\* were processed returns it.
ClassifiedByOthers(v) ==
  \/ \E m \in Range(visited) :
        ~Marked(m) /\ v \in Range(graph0.nodes[m].inputs)
  \/ \E k \in Range(popped) \ {b} : v \in Range(graph0.blocks[k].outputs)

\* C4: in InsertQuantDequantNodes a visited observer is bound (marked for
\* removal) exactly if the text of its name constant is a key of the
\* calibration dictionary; a bound observer's observed value is mapped to
\* that key's entry, its name constant is marked too, the observed value
\* enters no rewrite list through the observer, and after the pass the
\* observer and its name constant are out of the graph.
C4_BoundIffKeyInDict ==
  InQuantPass =>
    \A n \in VisitedObservers :
      /\ Marked(n) <=> NameText(n) \in DOMAIN qparam_dict
      /\ Marked(n) =>
           /\ Marked(NameConstant(n))
           /\ Calibrated(ObservedValue(n))
           /\ qparam_value_dict[ObservedValue(n)] = qparam_dict[NameText(n)]
           /\ \A i \in 1..Len(quantInputs) : quantInputs[i][2] # n
           /\ ObservedValue(n) \in Range(quantOutputs)
                => ClassifiedByOthers(ObservedValue(n))
           /\ QuantDone => /\ ~InGraph(graph, n)
                           /\ ~InGraph(graph, NameConstant(n))

\* Witness of C4: the pass has ended, it bound one observer and left
\* another, of a value with a quantizable producer, unbound.
C4_Witness ==
  /\ QuantDone
  /\ \E n \in VisitedObservers : Marked(n)
  /\ \E n \in VisitedObservers :
       /\ ~Marked(n)
       /\ checkIfNodeQuantizable(graph0, graph0.vals[ObservedValue(n)].node)

\* C5 (as claimed): for an observer InsertObserverNodes created for x,
\* whose output is named x + ".observed", a dictionary with the key
\* x + ".observed" binds the observer: after the bind step x is mapped to
\* that entry and the observer and its name constant are out of the graph.
C5_ObservedKeyBinds ==
  Bound =>
    \A n \in Observers(graph0) :
      LET key == graph0.vals[graph0.nodes[n].outputs[1]].name
      IN key \in DOMAIN qparam_dict =>
           /\ Calibrated(ObservedValue(n))
           /\ qparam_value_dict[ObservedValue(n)] = qparam_dict[key]
           /\ ~InGraph(graph, n)
           /\ ~InGraph(graph, NameConstant(n))

\* C5 (amended): the key that binds the observer of x is the unique name
\* of x itself, the text InsertObserverNodes stored in the name constant.
C5_ValueNameKeyBinds ==
  Bound =>
    \A n \in Observers(graph0) :
      LET key == graph0.vals[ObservedValue(n)].name
      IN key \in DOMAIN qparam_dict =>
           /\ Calibrated(ObservedValue(n))
           /\ qparam_value_dict[ObservedValue(n)] = qparam_dict[key]
           /\ ~InGraph(graph, n)
           /\ ~InGraph(graph, NameConstant(n))

\* Witness of C5: the bind step is over and an observer's value name is a
\* key of the dictionary.
C5_Witness ==
  /\ Bound
  /\ \E n \in Observers(graph0) :
       graph0.vals[ObservedValue(n)].name \in DOMAIN qparam_dict

\* v is the same in the graph before and after the quant pass.
Untouched(v) ==
  /\ graph.vals[v].node = graph0.vals[v].node
  /\ graph.vals[v].node # NoNode => InGraph(graph, graph.vals[v].node)
  /\ NodeUses(graph, v) = NodeUses(graph0, v)
  /\ RetUses(graph, v) = RetUses(graph0, v)
  /\ \A u \in NodeUses(graph, v) :
        graph.nodes[u[1]].kind \notin
          {"aten::quantize_linear", "aten::dequantize"}

\* C6 (as claimed): after InsertQuantDequantNodes every value without an
\* entry in the value-to-parameter map has the producer and exactly the
\* uses it had before the pass, and no quantize or dequantize node
\* consumes it.
C6_UncalibratedUntouched ==
  QuantDone =>
    \A v \in 1..Len(graph0.vals) : ~Calibrated(v) => Untouched(v)

\* v is an output of a node the pass destroyed (a bound observer or its
\* name constant).
OfDestroyedNode(v) ==
  graph0.vals[v].node # NoNode /\ graph.nodes[graph0.vals[v].node].freed

\* C6 (amended): the same for every value without a map entry that is
\* not an output of a node the pass destroyed.
C6_UncalibratedSurvivorsUntouched ==
  QuantDone =>
    \A v \in 1..Len(graph0.vals) :
      (~Calibrated(v) /\ ~OfDestroyedNode(v)) => Untouched(v)

\* Witness of C6: the pass rewrote something, and an uncalibrated tensor
\* value of a quantizable producer with a quantizable consumer is left.
C6_Witness ==
  /\ QuantDone
  /\ Len(graph.nodes) > Len(graph0.nodes)
  /\ \E v \in 1..Len(graph0.vals) :
       /\ ~Calibrated(v)
       /\ IsTensor(graph0, v)
       /\ checkIfNodeQuantizable(graph0, graph0.vals[v].node)
       /\ \E u \in NodeUses(graph0, v) :
            checkIfNodeQuantizable(graph0, u[1])

\* Quantize node q sits at the definition of v: in the block of v's
\* producer, after it, with nothing but quantize, dequantize and constant
\* nodes in between.
AtDefinition(G, q, v) ==
  LET p == G.vals[v].node
      list == G.blocks[G.nodes[p].owner].nodes
  IN /\ G.nodes[q].owner = G.nodes[p].owner
     /\ IndexOf(list, p) < IndexOf(list, q)
     /\ \A i \in (IndexOf(list, p) + 1)..(IndexOf(list, q) - 1) :
          G.nodes[list[i]].kind \in
            {"aten::quantize_linear", "aten::dequantize", "prim::Constant"}

\* The two classifications exclude each other: quantInputs holds values of
\* non-quantizable producers only, quantOutputs values of quantizable
\* producers only, and after the pass every pair fed by a value of a
\* quantizable producer sits at that value's definition.
ExclusiveClassification ==
  /\ InQuantPass =>
       /\ \A i \in 1..Len(quantInputs) :
            ~checkIfNodeQuantizable(graph0, graph0.vals[quantInputs[i][1]].node)
       /\ \A i \in 1..Len(quantOutputs) :
            checkIfNodeQuantizable(graph0, graph0.vals[quantOutputs[i]].node)
  /\ QuantDone =>
       \A v \in 1..Len(graph0.vals) :
         checkIfNodeQuantizable(graph0, graph0.vals[v].node)
           => \A q \in QuantChain(graph, v) : AtDefinition(graph, q, v)

\* The chain i1 -> conv2d -> v1 -> relu -> v2 with v2 returned.
ChainRecipe ==
  [ins |-> <<TensorType>>, np |-> 0,
   body |-> <<NodeSpec("aten::conv2d", <<1>>, 1, TensorType, ""),
              NodeSpec("aten::relu", <<2>>, 1, TensorType, "")>>,
   owners |-> <<NoNode>>, rets |-> <<<<3>>>>]

\* Observer insertion then rewrite have run on the chain, with calibration
\* for i1 and for conv2d's output v1.
ChainScenario ==
  /\ QuantDone
  /\ graphIn = BuildGraph(ChainRecipe)
  /\ DOMAIN qparam_dict = {"i1", "v1"}

\* The root block without its constants and observers.
Dataflow(G) ==
  SelectSeq(G.blocks[1].nodes,
            LAMBDA n : G.nodes[n].kind \notin {"prim::Constant", "prim::PythonOp"})

\* i1 -> quant1 -> dequant1 -> conv2d -> quant2 -> dequant2 -> relu -> v2
ChainRewritten ==
  LET d == Dataflow(graph)
  IN /\ [i \in 1..Len(d) |-> graph.nodes[d[i]].kind] =
          <<"aten::quantize_linear", "aten::dequantize", "aten::conv2d",
            "aten::quantize_linear", "aten::dequantize", "aten::relu">>
     /\ graph.nodes[d[1]].inputs[1] = 1
     /\ graph.nodes[d[2]].inputs = graph.nodes[d[1]].outputs
     /\ graph.nodes[d[3]].inputs = graph.nodes[d[2]].outputs
     /\ graph.nodes[d[4]].inputs[1] = graph.nodes[d[3]].outputs[1]
     /\ graph.nodes[d[5]].inputs = graph.nodes[d[4]].outputs
     /\ graph.nodes[d[6]].inputs = graph.nodes[d[5]].outputs
     /\ graph.blocks[1].outputs = graph.nodes[d[6]].outputs

\* C7 (as claimed): the classifications exclude each other, and on the
\* chain with calibration for i1 and v1 the two passes yield one pair on
\* each of the two edges and leave no observer node.
C7_ChainNoObserverLeft ==
  /\ ExclusiveClassification
  /\ ChainScenario => (ChainRewritten /\ Observers(graph) = {})

\* C7 (amended): the same, but the observer of relu's output v2, whose
\* name is not in the dictionary, is left in the graph with its name
\* constant; the observers of i1 and v1 are gone.
C7_ChainOneObserverLeft ==
  /\ ExclusiveClassification
  /\ ChainScenario =>
       /\ ChainRewritten
       /\ Observers(graph) = ObserversOf(graph, 3)
       /\ Cardinality(Observers(graph)) = 1

\* Witness of C7: the scenario has run to its end.
C7_Witness == ChainScenario /\ Len(quantInputs) = 1 /\ 2 \in Range(quantOutputs)

\* The kind of graph input i (counted from 1).
InputKind(i) == IF i <= param_start_index THEN "activation" ELSE "param"

TensorInputs(kind) ==
  {graph.inputs[i] : i \in {j \in 1..Len(graph.inputs) :
      IsTensor(graph, graph.inputs[j]) /\ InputKind(j) = kind}}

\* C8: after InsertObserverNodes a tensor graph input has one observer,
\* cloned from the template of its kind (trailing module parameters
\* "param", leading external data "activation"), if that template was
\* supplied and none if not; a missing template is no error; with only
\* the param template supplied the observed values are exactly the tensor
\* parameter inputs and no clone of the activation template exists.
C8_ObserverKindsIndependent ==
  /\ (pc = "failed" /\ runs = 0) => numParams > Len(graph.inputs)
  /\ ObserversInserted =>
       /\ \A i \in 1..Len(graph.inputs) :
            IsTensor(graph, graph.inputs[i]) =>
              IF InputKind(i) \in DOMAIN observerNodeDict
              THEN /\ Cardinality(ObserversOf(graph, graph.inputs[i])) = 1
                   /\ \A n \in ObserversOf(graph, graph.inputs[i]) :
                        graph.nodes[n].attr = observerNodeDict[InputKind(i)]
              ELSE ObserversOf(graph, graph.inputs[i]) = {}
       /\ DOMAIN observerNodeDict = {"param"} =>
            /\ {graph.nodes[n].inputs[1] : n \in Observers(graph)} =
                 TensorInputs("param")
            /\ \A n \in Present(graph) :
                 graph.nodes[n].attr # TemplateFor("activation")

\* Witness of C8: only the param template was supplied, the graph has a
\* tensor parameter input, a tensor external input and a node with a
\* tensor output.
C8_Witness ==
  /\ ObserversInserted
  /\ DOMAIN observerNodeDict = {"param"}
  /\ TensorInputs("param") # {}
  /\ TensorInputs("activation") # {}
  /\ \E n \in Present(graph0) : outputsNeedToBeObserved(graph0, n)

InObserverPass == pc \in {"obs_inputs", "obs_walk", "obs_add", "observed"}

C11_ReservedAlwaysThrow ==
  \A i \in 1..Len(calls) :
    /\ calls[i].threw
    /\ calls[i].what = "Pass not implemented yet!"
    /\ calls[i].given = graph

\* Witness of C11: the same entry point was called twice in a row on a
\* graph both passes have rewritten.
C11_Witness ==
  /\ pc = "done"
  /\ graph # graphIn
  /\ Len(calls) >= 2
  /\ calls[1].entry = calls[2].entry

\* Quantize nodes the running pass has created.
NewQuants ==
  {q \in Present(graph) : /\ q > Len(graph0.nodes)
                          /\ graph.nodes[q].kind = "aten::quantize_linear"}

\* Nodes the running pass has destroyed.
Destroyed ==
  {n \in 1..Len(graph0.nodes) : graph.nodes[n].freed /\ ~graph0.nodes[n].freed}

\* The calibrated values among the first k entries of quantOutputs, and
\* the entries with a calibrated value and a consumer that is still a
\* node of the graph among the first k of quantInputs.
OutputRewrites(k) == {i \in 1..k : Calibrated(quantOutputs[i])}

InputRewrites(k) ==
  {i \in 1..k : /\ Calibrated(quantInputs[i][1])
                /\ ~graph.nodes[quantInputs[i][2]].freed}

\* The marked nodes among the first k of nodes_to_remove, and all that is
\* destroyed with them (the nodes in their blocks).
MarkedUpTo(k) == Range(SubSeq(nodes_to_remove, 1, k))

DestroyedWith(k) == UNION {Nested(graph0, n) : n \in MarkedUpTo(k)}

\* C12: InsertQuantDequantNodes runs in ordered phases.  While blocks are
\* traversed the graph is not touched; the marked nodes are destroyed
\* next, in list order, while no node is created and nothing but a marked
\* node and the nodes in its blocks goes; when the first pair is
\* inserted every marked node is gone; the pairs inserted while
\* quantOutputs is processed are definition-site pairs, one per calibrated
\* entry, and the consumer-side pairs come only after all of them.
C12_PhasesInOrder ==
  /\ pc = "q_walk" => graph = graph0
  /\ pc = "q_destroy" =>
       /\ Len(graph.nodes) = Len(graph0.nodes)
       /\ MarkedUpTo(idx - 1) \subseteq Destroyed
       /\ Destroyed \subseteq DestroyedWith(idx - 1)
  /\ pc \in {"q_outputs", "q_inputs", "done"} =>
       /\ Range(nodes_to_remove) \subseteq Destroyed
       /\ Destroyed \subseteq DestroyedWith(Len(nodes_to_remove))
  /\ pc = "q_outputs" =>
       /\ Cardinality(NewQuants) = Cardinality(OutputRewrites(idx - 1))
       /\ \A q \in NewQuants : \E i \in OutputRewrites(idx - 1) :
            /\ q \in QuantChain(graph, quantOutputs[i])
            /\ AtDefinition(graph, q, quantOutputs[i])
  /\ pc = "q_inputs" =>
       Cardinality(NewQuants) =
         Cardinality(OutputRewrites(Len(quantOutputs)))
           + Cardinality(InputRewrites(idx - 1))

\* Witness of C12: observers were destroyed, a definition-site pair was
\* inserted and a consumer-side pair has just been inserted.
C12_Witness ==
  /\ pc = "q_inputs"
  /\ nodes_to_remove # <<>>
  /\ OutputRewrites(Len(quantOutputs)) # {}
  /\ InputRewrites(idx - 1) # {}

NewDequants ==
  {d \in Present(graph) : /\ d > Len(graph0.nodes)
                          /\ graph.nodes[d].kind = "aten::dequantize"}

\* v is the output of a constant node holding the given text.
HoldsConstant(G, v, type, text) ==
  /\ KindOf(G, G.vals[v].node) = "prim::Constant"
  /\ G.vals[v].type = type
  /\ G.nodes[G.vals[v].node].attr = text

\* The definition-site rewrites done so far.
OutputRewritesDone ==
  IF pc = "q_outputs" THEN OutputRewrites(idx - 1)
  ELSE OutputRewrites(Len(quantOutputs))

\* C13 (as claimed): every quantize node of the pass has the three inputs
\* (original value v, scale constant, zero-point constant), the constants
\* holding the scale and zero point of v's map entry; every dequantize
\* node has one input, the output of a quantize node, and every quantize
\* node feeds one dequantize node.  After the definition-site rewrite of
\* v the only consumer of v is one quantize node, in its slot 0, and that
\* node does not consume its own pair's output.
C13_QuantTakesOriginalValue ==
  Bound =>
    /\ \A q \in NewQuants :
         /\ Len(graph.nodes[q].inputs) = 3
         /\ LET v == graph.nodes[q].inputs[1]
            IN /\ v <= Len(graph0.vals)
               /\ Calibrated(v)
               /\ HoldsConstant(graph, graph.nodes[q].inputs[2], "float",
                                ToString(Lookup(qparam_value_dict, v)[2]))
               /\ HoldsConstant(graph, graph.nodes[q].inputs[3], "int",
                                ToString(Lookup(qparam_value_dict, v)[3]))
         /\ Cardinality(DequantsOf(graph, q)) = 1
    /\ \A d \in NewDequants :
         /\ Len(graph.nodes[d].inputs) = 1
         /\ \E q \in NewQuants : graph.nodes[d].inputs = graph.nodes[q].outputs
    /\ \A i \in OutputRewritesDone :
         LET v == quantOutputs[i]
         IN /\ RetUses(graph, v) = {}
            /\ \E q \in NewQuants :
                 /\ NodeUses(graph, v) = {<<q, 1>>}
                 /\ \A d \in DequantsOf(graph, q) :
                      graph.nodes[d].outputs[1] \notin Range(graph.nodes[q].inputs)

\* The node of block k that is n or holds n in its blocks; NoNode if n is
\* not under block k.
RECURSIVE Up(_, _, _)
Up(G, n, k) ==
  IF ~InGraph(G, n) THEN NoNode
  ELSE IF G.nodes[n].owner = k THEN n
  ELSE IF G.blocks[G.nodes[n].owner].owner = NoNode THEN NoNode
  ELSE Up(G, G.blocks[G.nodes[n].owner].owner, k)

\* v is a graph input, or its producer is in the graph and comes, in its
\* block, before the node that is n or holds n.
DefinedBefore(G, v, n) ==
  LET p == G.vals[v].node
  IN IF p = NoNode THEN TRUE
     ELSE /\ InGraph(G, p)
          /\ LET k == G.nodes[p].owner
                 a == Up(G, n, k)
             IN /\ a # NoNode
                /\ IndexOf(G.blocks[k].nodes, p) < IndexOf(G.blocks[k].nodes, a)

\* The same for the return node of block k, which ends the block.
DefinedBeforeReturn(G, v, k) ==
  LET p == G.vals[v].node
  IN IF p = NoNode THEN TRUE
     ELSE /\ InGraph(G, p)
          /\ IF G.nodes[p].owner = k THEN TRUE
             ELSE /\ G.blocks[k].owner # NoNode
                  /\ DefinedBefore(G, v, G.blocks[k].owner)

WellFormed(G) ==
  /\ \A n \in Present(G) : \A v \in Range(G.nodes[n].inputs) :
        DefinedBefore(G, v, n)
  /\ \A k \in 1..Len(G.blocks) : \A v \in Range(G.blocks[k].outputs) :
        DefinedBeforeReturn(G, v, k)

\* C14: both passes preserve definition before use.  On a well-formed
\* graph, when InsertObserverNodes has returned and when
\* InsertQuantDequantNodes has returned, every input of every node in the
\* graph and every block output is a graph input or the output of a node
\* still in the graph that precedes the consumer in definition order.
C14_DefinitionBeforeUse ==
  (WellFormed(graphIn) /\ (ObserversInserted \/ QuantDone))
    => WellFormed(graph)

\* Witness of C14: the two passes have run on a graph with a nested block,
\* or have destroyed observers and inserted pairs at a definition and in
\* front of a consumer.
C14_Witness ==
  /\ QuantDone
  /\ WellFormed(graphIn)
  /\ Destroyed # {}
  /\ OutputRewrites(Len(quantOutputs)) # {}
  /\ InputRewrites(Len(quantInputs)) # {}
  /\ Observers(graph) # {}

\* Old nodes of block k that are still in the graph, in block order.
OldOrder(G, k) ==
  SelectSeq(G.blocks[k].nodes,
            LAMBDA m : m <= Len(graph0.nodes) /\ ~graph.nodes[m].freed)

\* Observers the traversal has visited whose name is no key of the
\* dictionary.
UnboundObservers ==
  {n \in Range(visited) :
     IsObserver(graph0, n) /\ NameText(n) \notin DOMAIN qparam_dict}

\* C15 (as claimed): an observer whose name-constant text is no key of
\* the dictionary is no error.  The traversal does not fail (a failure of
\* the pass comes with a marked node); the observer and its name constant
\* are not marked, a map entry of its observed value is the doing of a
\* marked node, and its inputs are classified as those of a
\* non-quantizable node (a tensor input of a quantizable producer goes to
\* quantOutputs, no input goes to quantInputs); after the pass both nodes
\* are in the graph, the observer with the inputs and the place among the
\* old nodes it had.
C15_UnboundObserverKept ==
  /\ (runs >= 1 /\ pc = "failed") => nodes_to_remove # <<>>
  /\ InQuantPass =>
       \A n \in UnboundObservers :
         /\ ~Marked(n) /\ ~Marked(NameConstant(n))
         /\ Calibrated(ObservedValue(n)) =>
              \E m \in VisitedCalls :
                 Marked(m) /\ ObservedValue(m) = ObservedValue(n)
         /\ checkIfNodeQuantizable(graph0, graph0.vals[ObservedValue(n)].node)
              => /\ ObservedValue(n) \in valueLookup
                 /\ ObservedValue(n) \in Range(quantOutputs)
         /\ \A i \in 1..Len(quantInputs) : quantInputs[i][2] # n
         /\ QuantDone =>
              /\ InGraph(graph, n) /\ InGraph(graph, NameConstant(n))
              /\ graph.nodes[n].inputs = graph0.nodes[n].inputs
              /\ graph.nodes[n].owner = graph0.nodes[n].owner
              /\ OldOrder(graph, graph.nodes[n].owner)
                   = OldOrder(graph0, graph.nodes[n].owner)

\* Position of node n in its block.
PositionOf(G, n) == IndexOf(G.blocks[G.nodes[n].owner].nodes, n)

\* Observer n has the inputs (observed value, fresh constant holding the
\* value's unique name) and one output of the observed value's type named
\* after it.
ObserverShape(n) ==
  /\ Len(graph.nodes[n].inputs) = 2
  /\ Len(graph.nodes[n].outputs) = 1
  /\ LET v == graph.nodes[n].inputs[1]
         c == graph.nodes[n].inputs[2]
         o == graph.nodes[n].outputs[1]
     IN /\ v <= Len(graph0.vals)
        /\ HoldsConstant(graph, c, "str", graph0.vals[v].name)
        /\ graph.vals[c].node > Len(graph0.nodes)
        /\ NodeUses(graph, c) = {<<n, 2>>}
        /\ graph.vals[o].type = graph0.vals[v].type
        /\ graph.vals[o].name = graph0.vals[v].name \o ".observed"

\* Observer n of a graph input is in the root block before every node
\* the graph had.
AtRootStart(n) ==
  /\ graph.nodes[n].owner = 1
  /\ \A m \in Range(graph0.blocks[1].nodes) :
        PositionOf(graph, n) < PositionOf(graph, m)

\* C16 (as claimed): every observer InsertObserverNodes created has the
\* observer shape; an activation observer is the node right after the
\* producer of its observed value, also when the producer has several
\* tensor outputs; a graph-input observer is at the start of the root
\* block.
C16_ObserverRightAfterProducer ==
  ObserversInserted =>
    \A n \in Observers(graph) :
      /\ ObserverShape(n)
      /\ LET p == graph.vals[graph.nodes[n].inputs[1]].node
         IN IF p = NoNode THEN AtRootStart(n)
            ELSE /\ graph.nodes[n].owner = graph.nodes[p].owner
                 /\ PositionOf(graph, n) = PositionOf(graph, p) + 1

\* C16 (amended): the same, but an activation observer comes after the
\* producer of its observed value with nothing in between except the
\* observers of the producer's later outputs.
C16_ObserverAfterProducer ==
  ObserversInserted =>
    \A n \in Observers(graph) :
      /\ ObserverShape(n)
      /\ LET v == graph.nodes[n].inputs[1]
             p == graph.vals[v].node
         IN IF p = NoNode THEN AtRootStart(n)
            ELSE /\ graph.nodes[n].owner = graph.nodes[p].owner
                 /\ PositionOf(graph, p) < PositionOf(graph, n)
                 /\ \A m \in Range(graph.blocks[graph.nodes[n].owner].nodes) :
                      (PositionOf(graph, p) < PositionOf(graph, m)
                         /\ PositionOf(graph, m) < PositionOf(graph, n))
                      => /\ IsObserver(graph, m)
                         /\ graph.vals[graph.nodes[m].inputs[1]].node = p
                         /\ IndexOf(graph.nodes[p].outputs, v)
                              < IndexOf(graph.nodes[p].outputs,
                                        graph.nodes[m].inputs[1])

\* Witness of C16: observers of a graph input and of two outputs of one
\* node have been inserted.
C16_Witness ==
  /\ ObserversInserted
  /\ \E n \in Observers(graph) : graph.vals[graph.nodes[n].inputs[1]].node = NoNode
  /\ \E n, m \in Observers(graph) :
       /\ n # m
       /\ graph.vals[graph.nodes[n].inputs[1]].node # NoNode
       /\ graph.vals[graph.nodes[n].inputs[1]].node
            = graph.vals[graph.nodes[m].inputs[1]].node

\* The observers bound so far.
BoundObservers == {n \in Range(nodes_to_remove) : IsObserver(graph0, n)}

\* C17 (as claimed): destruction in InsertQuantDequantNodes is safe and
\* minimal.  No node is on nodes_to_remove twice; a bound observer is on
\* it before its name constant; a node is destroyed only while it is in
\* the graph with no consumer of its outputs left, and the pass does not
\* fail; the nodes marked are bound observers that InsertObserverNodes
\* created and their name constants, and no other node is destroyed.
C17_DestroysOnlyBoundObservers ==
  InQuantPass =>
    /\ NoDuplicates(nodes_to_remove)
    /\ \A n \in BoundObservers :
         /\ NameConstant(n) \in Range(nodes_to_remove)
         /\ IndexOf(nodes_to_remove, n)
              < IndexOf(nodes_to_remove, NameConstant(n))
    /\ (pc = "q_destroy" /\ idx <= Len(nodes_to_remove))
         => CanDestroy(graph, nodes_to_remove[idx])
    /\ \A n \in Range(nodes_to_remove) :
         \/ IsObserver(graph0, n)
         \/ \E m \in BoundObservers : n = NameConstant(m)
    /\ Destroyed \subseteq Range(nodes_to_remove)

\* C18: a second call of InsertQuantDequantNodes on the graph the first
\* call produced, with the same dictionary, binds no observer, marks and
\* destroys no node, inserts no quantize or dequantize node and redirects
\* no use: the graph stays the one the first call left.
C18_SecondRunChangesNothing ==
  (runs = 2 /\ InQuantPass) =>
    /\ graph = graph0
    /\ nodes_to_remove = <<>>
    /\ qparam_value_dict = <<>>

\* Witness of C18: the second call has returned; the first had destroyed
\* an observer, inserted pairs at a definition and before a consumer and
\* left an unbound observer.
C18_Witness ==
  /\ runs = 2
  /\ QuantDone
  /\ \E n \in 1..Len(graph.nodes) : graph.nodes[n].freed
  /\ \E q \in Present(graph) :
       /\ graph.nodes[q].kind = "aten::quantize_linear"
       /\ graph.vals[graph.nodes[q].inputs[1]].node # NoNode
  /\ \E q \in Present(graph) :
       /\ graph.nodes[q].kind = "aten::quantize_linear"
       /\ graph.vals[graph.nodes[q].inputs[1]].node = NoNode
  /\ Observers(graph) # {}

====
